---- MODULE Spec2Model ----
(***************************************************************************)
(* FLUX Anime Dream Weaver (src/main.py): the POST /generate handler, the  *)
(* remote inference function generate_image, ImageGenerator.generate and   *)
(* load_model, the PromptProcessor helpers, the routes GET /, GET /health  *)
(* and GET /default-preview, as a state machine over one request at a      *)
(* time, and the script of the page that GET / returns.                    *)
(* Strings are sequences of one-character strings; seeds are unbounded     *)
(* Python integers, kept here as two limbs <<hi, lo>> with value           *)
(* hi * 2^16 + lo and 0 <= lo < 2^16, so that 2^32 - 1 is representable.   *)
(*                                                                         *)
(* Spec      every handler step on the full set of input requests          *)
(* SpecSide  a few requests interleaved with the other routes              *)
(* SpecProbe a few requests, one of them remembered and compared with what *)
(*           the same request gets later                                   *)
(* SpecForm  the same with forms that leave out the optional fields        *)
(* SpecPage  the page in the browser: suggestion clicks, submissions, the  *)
(*           /generate and /health fetches ending in any order             *)
(***************************************************************************)
EXTENDS Integers, Sequences, FiniteSets, TLC

VARIABLES
    pc,          \* position of the request being served
    form,        \* the form fields posted to /generate (None or one)
    req,         \* the arguments generate_endpoint is called with (None or one)
    replay,      \* the pipeline invocation a resubmission tries to reproduce
    remoteCalls, \* arguments of generate_image.remote for this request
    genSeeds,    \* seeds handed to torch.Generator.manual_seed for this request
    pipeCalls,   \* invocations of self.pipe for this request
    innerExc,    \* exception raised inside generate_image (None or one)
    remoteExc,   \* exception raised by the .remote call itself (None or one)
    result,      \* the dict generate_image returned (None or one)
    response,    \* the JSONResponse of the handler (None or one)
    escaped,     \* an exception left generate_endpoint uncaught
    frame,       \* locals of generate_endpoint across the remote call
    pipe,        \* generator.pipe, the model handle
    loads,       \* completed FluxPipeline.from_pretrained calls
    loadCalls,   \* FluxPipeline.from_pretrained calls, completed or raised
    side,        \* the last answer of GET /, /health or /default-preview
    probe,       \* what was observed of one earlier request (None or one)
    promptValue,         \* the page: value of the #prompt input
    generateBtnDisabled, \* the page: generateBtn.disabled
    statusText,          \* the page: textContent of #status, in pieces
    statusClass,         \* the page: className of #status
    imageContainer,      \* the page: what #imageContainer shows
    imageWriter,         \* the submission that wrote #imageContainer (0: none)
    generateFetches,     \* the page: /generate fetches that have not settled
    lastSettled,         \* how the fetch of the latest submission settled
    healthFetch,         \* the page: the /health fetch started on load
    submissions          \* submit events handled by the page so far

\* the state of the request being served
requestVars == <<pc, form, req, replay, remoteCalls, genSeeds, pipeCalls, innerExc,
                 remoteExc, result, response, escaped, frame>>

\* the state of the container that runs generate_image
generatorVars == <<pipe, loads, loadCalls>>

\* the state of the page in the browser
pageVars == <<promptValue, generateBtnDisabled, statusText, statusClass,
              imageContainer, imageWriter, generateFetches, lastSettled,
              healthFetch, submissions>>

vars == <<requestVars, generatorVars, side, probe, pageVars>>

-----------------------------------------------------------------------------
(* Bounds of the model *)

MaxPad == 1      \* leading / trailing whitespace characters of an input prompt
LenSlack == 1    \* input prompt bodies of MAX_PROMPT_LEN -+ LenSlack characters
StepSlack == 1   \* input steps from MIN_STEPS - StepSlack to MAX_STEPS + StepSlack
SeedSlack == 1   \* input seeds this far around -1 and around 2^32 - 1
MaxLoadFailures == 1  \* from_pretrained calls that raise
MaxSubmissions == 2   \* submit events on one loaded page

-----------------------------------------------------------------------------
(* Config and literals *)

DEFAULT_STEPS == 4
MAX_STEPS == 8
MIN_STEPS == 1
MAX_PROMPT_LEN == 1000
PREVIEW_LEN == 100
HTTP_BAD_REQUEST == 400
HTTP_SERVER_ERROR == 500
HTTP_OK == 200

MODEL_NAME == "black-forest-labs/FLUX.1-schnell"
DEFAULT_PROMPT == "A serene girl standing under a cherry blossom tree"
DEFAULT_IMAGE_FILE == "/assets/cherry_blossom_girl.png"

ANIME_STYLE_SUFFIX ==
    <<
        ",", " ", "*", "*", "a", "n", "i", "m", "e", " ", "s", "t",
        "y", "l", "e", ",", " ", "v", "i", "b", "r", "a", "n", "t",
        " ", "c", "o", "l", "o", "r", "s", ",", " ", "f", "a", "n",
        "t", "a", "s", "t", "i", "c", "a", "l", ",", " ", "c", "i",
        "n", "e", "m", "a", "t", "i", "c", " ", "l", "i", "g", "h",
        "t", "i", "n", "g", ",", " ", "h", "i", "g", "h", "l", "y",
        " ", "d", "e", "t", "a", "i", "l", "e", "d", ",", " ", "s",
        "t", "u", "d", "i", "o", " ", "q", "u", "a", "l", "i", "t",
        "y", ",", " ", "t", "r", "e", "n", "d", "i", "n", "g", " ",
        "o", "n", " ", "A", "r", "t", "S", "t", "a", "t", "i", "o",
        "n", ".", "*", "*"
    >>

Whitespace == {" ", "\t", "\n"}

None == <<>>
Some(x) == <<x>>

-----------------------------------------------------------------------------
(* Seeds: integers as limbs *)

Limb == 2^16

IntToSeed(n) == <<n \div Limb, n % Limb>>

SeedPlus(s, k) == <<s[1] + ((s[2] + k) \div Limb), (s[2] + k) % Limb>>

SeedLeq(a, b) == a[1] < b[1] \/ (a[1] = b[1] /\ a[2] <= b[2])

DEFAULT_SEED == IntToSeed(-1)

RAND_LO == IntToSeed(0)

RAND_HI == <<Limb - 1, Limb - 1>>

\* random.randint(lo, hi): the values drawn are sampled at both ends of the
\* range; candidates just outside are listed so that the range is what
\* excludes them.
RandInt(lo, hi) ==
    { s \in { SeedPlus(b, k) : b \in {RAND_LO, RAND_HI}, k \in -1..1 } :
        SeedLeq(lo, s) /\ SeedLeq(s, hi) }

-----------------------------------------------------------------------------
(* Strings *)

Rep(c, n) == [i \in 1..n |-> c]

RECURSIVE FirstKept(_, _)
FirstKept(s, i) ==
    IF i > Len(s) THEN i
    ELSE IF s[i] \notin Whitespace THEN i
    ELSE FirstKept(s, i + 1)

RECURSIVE LastKept(_, _)
LastKept(s, i) ==
    IF i < 1 THEN i
    ELSE IF s[i] \notin Whitespace THEN i
    ELSE LastKept(s, i - 1)

\* only the leading whitespace dropped, as str.lstrip() does
Strip_LeadingOnly(s) == SubSeq(s, FirstKept(s, 1), Len(s))

\* str.strip(): drop the leading and the trailing whitespace characters
Strip(s) == SubSeq(s, FirstKept(s, 1), LastKept(s, Len(s)))

\* the cut without the marker
Preview_NoEllipsis(s, n) == IF Len(s) > n THEN SubSeq(s, 1, n) ELSE s

\* s[:n] + "..." if len(s) > n else s
Preview(s, n) ==
    IF Len(s) > n THEN SubSeq(s, 1, n) \o <<".", ".", ".">> ELSE s

-----------------------------------------------------------------------------
(* Exceptions: a type and the constructor's arguments; Str is str(e) *)

HTTPException(status_code, detail) ==
    [type |-> "HTTPException", args |-> <<status_code, detail>>]

ValueError(msg) == [type |-> "ValueError", args |-> <<msg>>]

\* what the external libraries raise: the model load, the random generator,
\* the pipeline, the PNG encoding, the remote call
LibraryError(msg) == [type |-> "RuntimeError", args |-> <<msg>>]

Str(e) ==
    IF e.type = "HTTPException"
    THEN <<ToString(e.args[1]), ": ", e.args[2]>>
    ELSE <<e.args[1]>>

\* "except Exception": every exception type raised here derives from Exception
IsException(e) == e.type \in {"HTTPException", "ValueError", "RuntimeError"}

-----------------------------------------------------------------------------
(* PromptProcessor *)

\* the operands of the concatenation swapped
EnhancePrompt_Prefix(user_prompt, style_suffix) ==
    style_suffix \o Strip(user_prompt)

EnhancePrompt(user_prompt, style_suffix) == Strip(user_prompt) \o style_suffix

\* the length check left out
ValidatePrompt_NoLimit(prompt) ==
    IF Len(prompt) = 0 \/ Len(Strip(prompt)) = 0 THEN FALSE ELSE TRUE

\* the length measured after strip()
ValidatePrompt_StripFirst(prompt) ==
    IF Len(prompt) = 0 \/ Len(Strip(prompt)) = 0 THEN FALSE
    ELSE IF Len(Strip(prompt)) > MAX_PROMPT_LEN THEN FALSE
    ELSE TRUE

\* the blank check without strip(): a prompt of spaces passes
ValidatePrompt_NoStrip(prompt) ==
    IF Len(prompt) = 0 THEN FALSE
    ELSE IF Len(prompt) > MAX_PROMPT_LEN THEN FALSE
    ELSE TRUE

ValidatePrompt(prompt) ==
    IF Len(prompt) = 0 \/ Len(Strip(prompt)) = 0 THEN FALSE
    ELSE IF Len(prompt) > MAX_PROMPT_LEN THEN FALSE
    ELSE TRUE

\* the lower limit of the range forgotten
ClampSteps_NoLower(steps) ==
    IF ~(steps <= MAX_STEPS) THEN DEFAULT_STEPS ELSE steps

\* the default forced while the model is not loaded yet
ClampSteps_ColdDefault(steps) ==
    IF loads = 0 \/ ~(MIN_STEPS <= steps /\ steps <= MAX_STEPS)
    THEN DEFAULT_STEPS ELSE steps

\* if not (1 <= steps <= Config.MAX_STEPS): steps = Config.DEFAULT_STEPS
ClampSteps(steps) ==
    IF ~(MIN_STEPS <= steps /\ steps <= MAX_STEPS) THEN DEFAULT_STEPS ELSE steps

-----------------------------------------------------------------------------
(* ImageGenerator *)

NoPipe == "None"
FluxPipeline == "FluxPipeline"

IMAGE == "iVBORw0KGgo"

\* the sentinel never replaced
ResolveSeed_Keep(seed, r) == seed

\* seed 0 taken for "no seed" as well
ResolveSeed_ZeroToo(seed, r) ==
    IF seed = DEFAULT_SEED \/ seed = RAND_LO THEN r ELSE seed

\* if seed == Config.DEFAULT_SEED: seed = random.randint(0, 2**32 - 1)
ResolveSeed(seed, r) == IF seed = DEFAULT_SEED THEN r ELSE seed

\* load_model without "if self.pipe is None": every call loads
LoadModel_NoGuard(p, fails) ==
    IF fails THEN [pipe |-> p, loaded |-> FALSE, raised |-> TRUE]
    ELSE [pipe |-> FluxPipeline, loaded |-> TRUE, raised |-> FALSE]

\* the handle assigned before the load has finished: a load that raises
\* leaves a handle behind
LoadModel_HalfInit(p, fails) ==
    IF p = NoPipe
    THEN IF fails
         THEN [pipe |-> FluxPipeline, loaded |-> FALSE, raised |-> TRUE]
         ELSE [pipe |-> FluxPipeline, loaded |-> TRUE, raised |-> FALSE]
    ELSE [pipe |-> p, loaded |-> FALSE, raised |-> FALSE]

\* ImageGenerator.load_model on handle p; fails: from_pretrained raises.
\* The handle afterwards, whether a load completed, whether it raised.
LoadModel(p, fails) ==
    IF p = NoPipe
    THEN IF fails THEN [pipe |-> p, loaded |-> FALSE, raised |-> TRUE]
         ELSE [pipe |-> FluxPipeline, loaded |-> TRUE, raised |-> FALSE]
    ELSE [pipe |-> p, loaded |-> FALSE, raised |-> FALSE]

GenerateOutcomes ==
    {"ok", "load_raises", "seed_raises", "pipe_raises", "encode_raises"}

\* ImageGenerator.generate(prompt, seed, steps) with the outcome of the library
\* calls and the random draw r: the handle after load_model, whether the
\* model was loaded by this call, whether from_pretrained was called, the
\* seed handed
\* to manual_seed, the pipeline invocation, the exception raised or the
\* returned pair.
Generate(prompt, seed, steps, outcome, r) ==
    LET m == LoadModel(pipe, outcome = "load_raises")
        loadFails == m.raised
        used == ResolveSeed(seed, r)
        seedFails == ~loadFails /\ outcome = "seed_raises"
        pipeFails == ~loadFails /\ outcome = "pipe_raises"
        saveFails == ~loadFails /\ outcome = "encode_raises"
    IN  [ pipe |-> m.pipe,
          loaded |-> m.loaded,
          called |-> m.loaded \/ m.raised,
          seeded |-> IF loadFails THEN None ELSE Some(used),
          invoked |-> IF loadFails \/ seedFails THEN None
                      ELSE Some([prompt |-> prompt, steps |-> steps, seed |-> used]),
          exc |-> IF loadFails THEN Some(LibraryError("model load failed"))
                  ELSE IF seedFails THEN Some(LibraryError("manual_seed failed"))
                  ELSE IF pipeFails THEN Some(LibraryError("CUDA out of memory"))
                  ELSE IF saveFails THEN Some(LibraryError("cannot write PNG"))
                  ELSE None,
          ret |-> [img_str |-> IMAGE, seed |-> used] ]

-----------------------------------------------------------------------------
(* generate_image: the dicts it returns *)

ImageResult(img_str, used_seed, steps, prompt) ==
    [ success |-> TRUE, image |-> img_str, seed |-> used_seed, steps |-> steps,
      prompt |-> Preview(prompt, PREVIEW_LEN) ]

\* a concrete seed reported where the caller passed the sentinel
ImageFailure_SentinelLost(e, seed, steps) ==
    [ success |-> FALSE, error |-> Str(e),
      seed |-> IF seed = DEFAULT_SEED THEN RAND_LO ELSE seed, steps |-> steps ]

ImageFailure(e, seed, steps) ==
    [ success |-> FALSE, error |-> Str(e), seed |-> seed, steps |-> steps ]

-----------------------------------------------------------------------------
(* generate_endpoint: the responses it returns *)

JSONResponse(content, status_code) == [status |-> status_code, body |-> content]

\* the prompt reported after strip()
EndpointSuccess_StrippedPrompt(res, prompt, steps, seed, enhanced_prompt) ==
    JSONResponse([ success |-> TRUE,
                   image |-> res.image,
                   seed |-> res.seed,
                   steps |-> res.steps,
                   original_prompt |-> Strip(prompt),
                   enhanced_prompt |-> Preview(enhanced_prompt, PREVIEW_LEN) ],
                 HTTP_OK)

\* the remote dict passed on as it is
EndpointSuccess_PassThrough(res, prompt, steps, seed, enhanced_prompt) ==
    JSONResponse(res, HTTP_OK)

\* the handler's own seed and steps reported instead of the remote dict's
EndpointSuccess_EchoRequest(res, prompt, steps, seed, enhanced_prompt) ==
    JSONResponse([ success |-> TRUE,
                   image |-> res.image,
                   seed |-> seed,
                   steps |-> steps,
                   original_prompt |-> prompt,
                   enhanced_prompt |-> Preview(enhanced_prompt, PREVIEW_LEN) ],
                 HTTP_OK)

EndpointSuccess(res, prompt, steps, seed, enhanced_prompt) ==
    JSONResponse([ success |-> TRUE,
                   image |-> res.image,
                   seed |-> res.seed,
                   steps |-> res.steps,
                   original_prompt |-> prompt,
                   enhanced_prompt |-> Preview(enhanced_prompt, PREVIEW_LEN) ],
                 HTTP_OK)

\* status_code=500 left out: the default status
EndpointFailure_DefaultStatus(res) ==
    JSONResponse([success |-> FALSE, error |-> res.error], HTTP_OK)

EndpointFailure(res) ==
    JSONResponse([success |-> FALSE, error |-> res.error], HTTP_SERVER_ERROR)

EndpointExcept(e) ==
    JSONResponse([success |-> FALSE, error |-> <<"Server error: ">> \o Str(e)],
                 HTTP_SERVER_ERROR)

-----------------------------------------------------------------------------
(* Inputs *)

PromptBodies ==
    { <<>>, <<"\n">>, <<"a">>, <<"a", " ", "b">> }
    \cup { Rep("a", n) :
             n \in (MAX_PROMPT_LEN - LenSlack)..(MAX_PROMPT_LEN + LenSlack) }

Prompts ==
    { Rep(" ", l) \o body \o Rep(" ", t) :
        l \in 0..MaxPad, t \in 0..MaxPad, body \in PromptBodies }

StepInputs == (MIN_STEPS - StepSlack)..(MAX_STEPS + StepSlack)

SeedInputs ==
    { SeedPlus(DEFAULT_SEED, k) : k \in (-SeedSlack)..SeedSlack }
    \cup { SeedPlus(RAND_HI, k) : k \in 0..SeedSlack }

-----------------------------------------------------------------------------
(* State machine *)

Init ==
    /\ pc = "idle"
    /\ form = None
    /\ req = None
    /\ replay = None
    /\ remoteCalls = <<>>
    /\ genSeeds = <<>>
    /\ pipeCalls = <<>>
    /\ innerExc = None
    /\ remoteExc = None
    /\ result = None
    /\ response = None
    /\ escaped = FALSE
    /\ frame = None
    /\ pipe = NoPipe
    /\ loads = 0
    /\ loadCalls = 0
    /\ side = None
    /\ probe = None
    /\ promptValue = <<>>
    /\ generateBtnDisabled = FALSE
    /\ statusText = <<>>
    /\ statusClass = ""
    /\ imageContainer = [kind |-> "none", src |-> <<>>, text |-> ""]
    /\ imageWriter = 0
    /\ generateFetches = {}
    /\ lastSettled = None
    /\ healthFetch = "none"
    /\ submissions = 0

\* a missing seed bound to 0
BindForm_SeedZero(f) ==
    [ prompt |-> f.prompt,
      steps |-> IF f.steps = None THEN DEFAULT_STEPS ELSE f.steps[1],
      seed |-> IF f.seed = None THEN RAND_LO ELSE f.seed[1] ]

\* prompt: str = Form(...), steps: int = Form(Config.DEFAULT_STEPS),
\* seed: int = Form(Config.DEFAULT_SEED): a field the form does not hold is
\* bound to its default
BindForm(f) ==
    [ prompt |-> f.prompt,
      steps |-> IF f.steps = None THEN DEFAULT_STEPS ELSE f.steps[1],
      seed |-> IF f.seed = None THEN DEFAULT_SEED ELSE f.seed[1] ]

\* a fresh request starts with nothing called and nothing answered
Arrive(f, rep) ==
    /\ pc' = "endpoint"
    /\ form' = Some(f)
    /\ req' = Some(BindForm(f))
    /\ replay' = rep
    /\ remoteCalls' = <<>>
    /\ genSeeds' = <<>>
    /\ pipeCalls' = <<>>
    /\ innerExc' = None
    /\ remoteExc' = None
    /\ result' = None
    /\ response' = None
    /\ escaped' = FALSE
    /\ frame' = None
    /\ UNCHANGED <<generatorVars, side, probe, pageVars>>

\* a client posts the form fields prompt, steps, seed to /generate
Request ==
    /\ pc = "idle"
    /\ \E p \in Prompts, st \in StepInputs, sd \in SeedInputs :
         Arrive([prompt |-> p, steps |-> Some(st), seed |-> Some(sd)], None)

\* the page's advice "Use seed <seed> to recreate this result": the client
\* posts the same prompt and steps with the seed of the success response
Resubmit ==
    /\ pc = "done"
    /\ response # None
    /\ response[1].body.success
    /\ Arrive([prompt |-> req[1].prompt, steps |-> Some(req[1].steps),
               seed |-> Some(response[1].body.seed)],
              Some(pipeCalls[1]))

\* generate_image called as a function of the app, not through the handler,
\* with any prompt, seed and steps
DirectCall ==
    /\ pc = "idle"
    /\ \E p \in Prompts, st \in StepInputs, sd \in SeedInputs :
         remoteCalls' = <<[prompt |-> p, seed |-> sd, steps |-> st]>>
    /\ pc' = "remote"
    /\ UNCHANGED <<form, req, replay, genSeeds, pipeCalls, innerExc, remoteExc,
                   result, response, escaped, frame, generatorVars, side, probe, pageVars>>

\* the handler's "except Exception as e" clause
EndpointRaise(e) ==
    /\ pc' = "done"
    /\ IF IsException(e)
       THEN response' = Some(EndpointExcept(e)) /\ UNCHANGED escaped
       ELSE escaped' = TRUE /\ UNCHANGED response

\* generate_endpoint up to the remote call
GenerateEndpoint ==
    /\ pc = "endpoint"
    /\ LET prompt == req[1].prompt
           seed == req[1].seed
       IN  IF ~ValidatePrompt(prompt)
           THEN /\ EndpointRaise(HTTPException(HTTP_BAD_REQUEST, "Invalid prompt"))
                /\ UNCHANGED <<remoteCalls, frame>>
           ELSE LET steps == ClampSteps(req[1].steps)
                    enhanced_prompt == EnhancePrompt(prompt, ANIME_STYLE_SUFFIX)
                IN  /\ frame' = Some([steps |-> steps,
                                      enhanced_prompt |-> enhanced_prompt])
                    /\ remoteCalls' =
                         Append(remoteCalls, [prompt |-> enhanced_prompt,
                                              seed |-> seed, steps |-> steps])
                    /\ pc' = "remote"
                    /\ UNCHANGED <<response, escaped>>
    /\ UNCHANGED <<form, req, replay, genSeeds, pipeCalls, innerExc, remoteExc,
                   result, generatorVars, side, probe, pageVars>>

\* the remote function runs generate_image(prompt, seed, steps)
GenerateImage ==
    /\ pc = "remote"
    /\ LET a == remoteCalls[Len(remoteCalls)]
       IN  IF ~ValidatePrompt(a.prompt)
           THEN LET e == ValueError("Invalid prompt provided")
                IN  /\ innerExc' = Some(e)
                    /\ result' = Some(ImageFailure(e, a.seed, a.steps))
                    /\ UNCHANGED <<genSeeds, pipeCalls, generatorVars>>
           ELSE \E outcome \in GenerateOutcomes, r \in RandInt(RAND_LO, RAND_HI) :
                  LET steps == ClampSteps(a.steps)
                      g == Generate(a.prompt, a.seed, steps, outcome, r)
                  IN  /\ (g.called /\ ~g.loaded) =>
                            loadCalls - loads < MaxLoadFailures
                      /\ pipe' = g.pipe
                      /\ loads' = IF g.loaded THEN loads + 1 ELSE loads
                      /\ loadCalls' = IF g.called THEN loadCalls + 1
                                      ELSE loadCalls
                      /\ genSeeds' = genSeeds \o g.seeded
                      /\ pipeCalls' = pipeCalls \o g.invoked
                      /\ innerExc' = g.exc
                      /\ result' =
                           IF g.exc # None
                           THEN Some(ImageFailure(g.exc[1], a.seed, steps))
                           ELSE Some(ImageResult(g.ret.img_str, g.ret.seed,
                                                 steps, a.prompt))
    /\ pc' = "returning"
    /\ UNCHANGED <<form, req, replay, remoteCalls, remoteExc, response, escaped,
                   frame, side, probe, pageVars>>

\* the except clause calling the remote function once more
RemoteRaises_Retry ==
    /\ pc \in {"remote", "returning"}
    /\ req # None
    /\ remoteExc' = Some(LibraryError("remote call failed"))
    /\ remoteCalls' = Append(remoteCalls, remoteCalls[Len(remoteCalls)])
    /\ pc' = "remote"
    /\ UNCHANGED <<form, req, replay, genSeeds, pipeCalls, innerExc, result,
                   response, escaped, frame, generatorVars, side, probe, pageVars>>

\* generate_image.remote(...) itself raises (the platform fails before, while
\* or after the function runs); the handler's except clause answers
RemoteRaises ==
    /\ pc \in {"remote", "returning"}
    /\ req # None
    /\ LET e == LibraryError("remote call failed")
       IN  /\ remoteExc' = Some(e)
           /\ EndpointRaise(e)
    /\ UNCHANGED <<form, req, replay, remoteCalls, genSeeds, pipeCalls, innerExc,
                   result, frame, generatorVars, side, probe, pageVars>>

\* generate_endpoint after the remote call returned its dict
GenerateEndpointReturn ==
    /\ pc = "returning"
    /\ req # None
    /\ response' =
         IF result[1].success
         THEN Some(EndpointSuccess(result[1], req[1].prompt, frame[1].steps,
                                   req[1].seed, frame[1].enhanced_prompt))
         ELSE Some(EndpointFailure(result[1]))
    /\ pc' = "done"
    /\ UNCHANGED <<form, req, replay, remoteCalls, genSeeds, pipeCalls, innerExc,
                   remoteExc, result, escaped, frame, generatorVars, side, probe, pageVars>>

\* the handler has returned: its locals and the call's dicts are gone
Discard ==
    /\ pc' = "idle"
    /\ form' = None
    /\ req' = None
    /\ replay' = None
    /\ remoteCalls' = <<>>
    /\ genSeeds' = <<>>
    /\ pipeCalls' = <<>>
    /\ innerExc' = None
    /\ remoteExc' = None
    /\ result' = None
    /\ response' = None
    /\ escaped' = FALSE
    /\ frame' = None
    /\ UNCHANGED generatorVars

\* the response has been sent, or the direct caller has its dict: nothing of
\* the call is kept but the handle
Deliver ==
    /\ pc = "done" \/ (pc = "returning" /\ req = None)
    /\ Discard
    /\ UNCHANGED <<side, probe, pageVars>>

\* base64.b64encode(data).decode(): no bytes give the empty string
B64Encode(data) == IF data = <<>> THEN <<>> ELSE <<"base64", data>>

\* the bundled file: whether it is there, whether open/read succeed, whether
\* it holds no bytes
FileStates == [exists : BOOLEAN, readable : BOOLEAN, empty : BOOLEAN]

\* f.read()
FileBytes(filename, fs) == IF fs.empty THEN <<>> ELSE <<"bytes of", filename>>

\* an empty string returned where there is no image
LoadDefaultImage_EmptyString(filename, fs) ==
    IF fs.exists /\ fs.readable
    THEN Some(B64Encode(FileBytes(filename, fs)))
    ELSE Some(<<>>)

\* load_default_image(filename) on a file in state fs: the base64 text, or
\* None when the file does not exist or open/read raises
LoadDefaultImage(filename, fs) ==
    IF fs.exists
    THEN IF fs.readable
         THEN Some(B64Encode(FileBytes(filename, fs)))
         ELSE None
    ELSE None

\* the truth value of an Optional[str]: None and "" are false
Truthy(x) == x # None /\ x[1] # <<>>

INITIAL_STATUS == <<"Ready to bring", " your creative vision to life!">>

PLACEHOLDER_TEXT == "Your anime masterpiece will appear here"

\* the preview markup put in whatever load_default_image returned
GetHtmlInterface_AlwaysPreview(default_image) ==
    LET default_image_data ==
            IF Truthy(default_image)
            THEN <<"data:image/png;base64,", default_image[1]>> ELSE <<>>
    IN  [ prompt |-> DEFAULT_PROMPT,
          steps |-> DEFAULT_STEPS,
          seed |-> DEFAULT_SEED,
          status |-> [textContent |-> INITIAL_STATUS, className |-> "status"],
          imageContainer |->
            [kind |-> "preview", src |-> default_image_data, text |-> "Ready"] ]

\* get_html_interface(): what the page holds when it arrives: the form
\* values, the status line and the image container, which is the preview of
\* the default image when there is one and the text placeholder otherwise
GetHtmlInterface(default_image) ==
    LET default_image_data ==
            IF Truthy(default_image)
            THEN <<"data:image/png;base64,", default_image[1]>> ELSE <<>>
    IN  [ prompt |-> DEFAULT_PROMPT,
          steps |-> DEFAULT_STEPS,
          seed |-> DEFAULT_SEED,
          status |-> [textContent |-> INITIAL_STATUS, className |-> "status"],
          imageContainer |->
            IF Truthy(default_image)
            THEN [kind |-> "preview", src |-> default_image_data,
                  text |-> "Ready"]
            ELSE [kind |-> "placeholder", src |-> <<>>,
                  text |-> PLACEHOLDER_TEXT] ]

\* GET /health answered and, in the same step, the model warmed up
HealthCheck_Loads ==
    /\ side' = Some([route |-> "/health", status |-> HTTP_OK,
                     body |-> [status |-> "healthy", model |-> MODEL_NAME]])
    /\ pipe' = FluxPipeline
    /\ UNCHANGED <<requestVars, loads, loadCalls, probe, pageVars>>

\* GET /health
HealthCheck ==
    /\ side' = Some([route |-> "/health", status |-> HTTP_OK,
                     body |-> [status |-> "healthy", model |-> MODEL_NAME]])
    /\ UNCHANGED <<requestVars, generatorVars, probe, pageVars>>

\* GET /default-preview, with the bundled file in any state
GetDefaultPreview ==
    /\ \E fs \in FileStates :
         side' = Some([route |-> "/default-preview", status |-> HTTP_OK,
                       file |-> fs,
                       body |-> [prompt |-> DEFAULT_PROMPT,
                                 image |-> LoadDefaultImage(DEFAULT_IMAGE_FILE,
                                                            fs)]])
    /\ UNCHANGED <<requestVars, generatorVars, probe, pageVars>>

\* GET /: index() returns get_html_interface(), which reads the bundled file
Index ==
    /\ \E fs \in FileStates :
         side' = Some([route |-> "/", status |-> HTTP_OK, file |-> fs,
                       body |-> GetHtmlInterface(
                                  LoadDefaultImage(DEFAULT_IMAGE_FILE, fs))])
    /\ UNCHANGED <<requestVars, generatorVars, probe, pageVars>>

Next ==
    \/ Request
    \/ DirectCall
    \/ Deliver
    \/ Resubmit
    \/ GenerateEndpoint
    \/ GenerateImage
    \/ RemoteRaises
    \/ GenerateEndpointReturn

Spec == Init /\ [][Next]_vars

\* The same handlers on a few requests, interleaved with the other routes of
\* the web app.
SmallPrompts ==
    { <<"a">>, <<" ", "a", " ", "b", " ">>, <<" ">>,
      Rep("a", MAX_PROMPT_LEN + 1) }

SmallSteps == {MIN_STEPS - 1, MAX_STEPS, MAX_STEPS + 1}

SmallSeeds == {DEFAULT_SEED, RAND_LO, RAND_HI}

SmallRequest ==
    /\ pc = "idle"
    /\ \E p \in SmallPrompts, st \in SmallSteps, sd \in SmallSeeds :
         Arrive([prompt |-> p, steps |-> Some(st), seed |-> Some(sd)], None)

NextSide ==
    \/ SmallRequest
    \/ Deliver
    \/ GenerateEndpoint
    \/ GenerateImage
    \/ RemoteRaises
    \/ GenerateEndpointReturn
    \/ HealthCheck
    \/ GetDefaultPreview
    \/ Index

SpecSide == Init /\ [][NextSide]_vars

\* The seed of a pipeline invocation or of a response, left out when the
\* request asked for a random one.
MaskSeed(requested, seed) == IF requested = DEFAULT_SEED THEN requested ELSE seed

\* What a request made the pipeline receive and the client see, the image
\* excluded.
Observation ==
    [ form |-> form[1],
      req |-> req[1],
      pipeCalls |-> [ i \in DOMAIN pipeCalls |->
                        [ prompt |-> pipeCalls[i].prompt,
                          steps |-> pipeCalls[i].steps,
                          seed |-> MaskSeed(req[1].seed, pipeCalls[i].seed) ] ],
      success |-> response[1].body.success,
      seed |-> IF response[1].body.success
               THEN MaskSeed(req[1].seed, response[1].body.seed) ELSE None,
      steps |-> IF response[1].body.success
                THEN response[1].body.steps ELSE 0,
      original_prompt |-> IF response[1].body.success
                          THEN response[1].body.original_prompt ELSE None,
      enhanced_prompt |-> IF response[1].body.success
                          THEN response[1].body.enhanced_prompt ELSE None ]

\* the response is sent and remembered, to be compared with what the same
\* request gets after other requests have been served
Observe ==
    /\ pc = "done"
    /\ response # None
    /\ probe = None
    /\ probe' = Some(Observation)
    /\ Discard
    /\ UNCHANGED <<side, pageVars>>

NextProbe ==
    \/ SmallRequest
    \/ Observe
    \/ Deliver
    \/ GenerateEndpoint
    \/ GenerateImage
    \/ RemoteRaises
    \/ GenerateEndpointReturn

SpecProbe == Init /\ [][NextProbe]_vars

\* Requests that leave out the optional fields or send their defaults.
FormSteps == {None, Some(DEFAULT_STEPS), Some(MAX_STEPS)}

FormSeeds == {None, Some(DEFAULT_SEED), Some(RAND_LO)}

FormRequest ==
    /\ pc = "idle"
    /\ \E p \in SmallPrompts, st \in FormSteps, sd \in FormSeeds :
         Arrive([prompt |-> p, steps |-> st, seed |-> sd], None)

NextForm ==
    \/ FormRequest
    \/ Observe
    \/ Deliver
    \/ GenerateEndpoint
    \/ GenerateImage
    \/ RemoteRaises
    \/ GenerateEndpointReturn

SpecForm == Init /\ [][NextForm]_vars

-----------------------------------------------------------------------------
(* The page in the browser: the script of get_html_interface *)

PROMPT_SUGGESTIONS ==
    { <<"A", "n", " ", "a", "n", "c", "i", "e", "n", "t", " ", "s", "a",
        "m", "u", "r", "a", "i", " ", "m", "e", "d", "i", "t", "a", "t", "i",
        "n", "g", " ", "b", "y", " ", "a", " ", "w", "a", "t", "e", "r", "f",
        "a", "l", "l">>,
        <<"A", " ", "d", "r", "a", "g", "o", "n", " ", "s", "o", "a", "r",
        "i", "n", "g", " ", "t", "h", "r", "o", "u", "g", "h", " ", "c", "l",
        "o", "u", "d", "y", " ", "s", "k", "i", "e", "s">>,
        <<"A", " ", "c", "o", "z", "y", " ", "c", "a", "f", "é", " ", "s",
        "c", "e", "n", "e", " ", "w", "i", "t", "h", " ", "a", "n", "i", "m",
        "e", " ", "c", "h", "a", "r", "a", "c", "t", "e", "r", "s">> }

SUGGESTION_CUT == 30

\* promptText.length > 30 ? promptText.substring(0, 30) + '...' : promptText
Shorten(promptText) == Preview(promptText, SUGGESTION_CUT)

\* status.textContent.includes(text), on the pieces of the text
Includes(textContent, text) ==
    \E i \in DOMAIN textContent : textContent[i] = text

\* no document yet, or the document and its script as they arrived
PageLoaded == healthFetch # "none"

\* the browser gets the page: the markup of get_html_interface is the
\* document, and its script starts fetch('/health').  Loading again replaces
\* the document; fetches of the old one no longer reach any handler.
LoadPage ==
    /\ \E fs \in FileStates :
         LET html == GetHtmlInterface(LoadDefaultImage(DEFAULT_IMAGE_FILE, fs))
         IN  /\ promptValue' = <<html.prompt>>
             /\ statusText' = html.status.textContent
             /\ statusClass' = html.status.className
             /\ imageContainer' = html.imageContainer
    /\ generateBtnDisabled' = FALSE
    /\ imageWriter' = 0
    /\ generateFetches' = {}
    /\ lastSettled' = None
    /\ healthFetch' = "pending"
    /\ submissions' = 0
    /\ UNCHANGED <<requestVars, generatorVars, side, probe>>

\* setPrompt(promptText): a click on a suggestion card
SetPrompt ==
    /\ PageLoaded
    /\ \E promptText \in PROMPT_SUGGESTIONS :
         /\ promptValue' = promptText
         /\ statusText' = <<"Prompt set! Ready to generate \"">>
                            \o Shorten(promptText) \o <<"\".">>
    /\ statusClass' = "status"
    /\ UNCHANGED <<requestVars, generatorVars, side, probe,
                   generateBtnDisabled, imageContainer, imageWriter,
                   generateFetches, lastSettled, healthFetch, submissions>>

PageSteps == {DEFAULT_STEPS, MAX_STEPS}

PageSeeds == {DEFAULT_SEED, RAND_LO}

\* the handler that leaves the button enabled while the fetch is pending
Submit_ButtonStaysEnabled ==
    /\ PageLoaded
    /\ ~generateBtnDisabled
    /\ submissions < MaxSubmissions
    /\ \E steps \in PageSteps, seed \in PageSeeds :
         /\ statusText' = <<"Generating your anime artwork with ",
                            ToString(steps), " quality steps...">>
         /\ generateFetches' =
              generateFetches \cup {[id |-> submissions + 1,
                                     prompt |-> promptValue,
                                     steps |-> steps, seed |-> seed]}
    /\ generateBtnDisabled' = FALSE
    /\ statusClass' = "status generating"
    /\ imageContainer' = [kind |-> "loading", src |-> <<>>,
                          text |-> "Crafting your anime masterpiece..."]
    /\ imageWriter' = submissions + 1
    /\ lastSettled' = None
    /\ submissions' = submissions + 1
    /\ UNCHANGED <<requestVars, generatorVars, side, probe, promptValue,
                   healthFetch>>

\* the submit handler up to its await of fetch('/generate').  The browser
\* fires a submit event only while the submit button is not disabled: a click
\* on a disabled button does nothing and Enter in the prompt field does not
\* submit a form whose default button is disabled.
Submit ==
    /\ PageLoaded
    /\ ~generateBtnDisabled
    /\ submissions < MaxSubmissions
    /\ \E steps \in PageSteps, seed \in PageSeeds :
         /\ statusText' = <<"Generating your anime artwork with ",
                            ToString(steps), " quality steps...">>
         /\ generateFetches' =
              generateFetches \cup {[id |-> submissions + 1,
                                     prompt |-> promptValue,
                                     steps |-> steps, seed |-> seed]}
    /\ generateBtnDisabled' = TRUE
    /\ statusClass' = "status generating"
    /\ imageContainer' = [kind |-> "loading", src |-> <<>>,
                          text |-> "Crafting your anime masterpiece..."]
    /\ imageWriter' = submissions + 1
    /\ lastSettled' = None
    /\ submissions' = submissions + 1
    /\ UNCHANGED <<requestVars, generatorVars, side, probe, promptValue,
                   healthFetch>>

\* how fetch('/generate') followed by response.json() can end: a body with
\* success true, a body with success false, a body that is not JSON, no
\* response at all
FetchOutcomes == {"success", "failure", "not_json", "network_error"}

\* error.message in the catch clause
ErrorMessage(outcome) ==
    IF outcome = "failure" THEN "CUDA out of memory"
    ELSE IF outcome = "not_json" THEN "Unexpected token < in JSON"
    ELSE "Failed to fetch"

\* the else branch without its throw: a success = false body changes nothing
AfterFetch_FailureIgnored(outcome) ==
    IF outcome = "success"
    THEN [ textContent |-> <<"Your anime masterpiece is complete!">>,
           className |-> "status success",
           imageContainer |-> [kind |-> "image",
                               src |-> <<"data:image/png;base64,", <<IMAGE>>>>,
                               text |-> "Complete"] ]
    ELSE IF outcome = "failure"
    THEN [ textContent |-> statusText,
           className |-> statusClass,
           imageContainer |-> imageContainer ]
    ELSE [ textContent |-> <<"Generation failed: ", ErrorMessage(outcome)>>,
           className |-> "status error",
           imageContainer |-> [kind |-> "failed", src |-> <<>>,
                               text |-> "Generation failed"] ]

\* the try and catch of the submit handler once the fetch has ended: the
\* status line and the image container it leaves
AfterFetch(outcome) ==
    IF outcome = "success"
    THEN [ textContent |-> <<"Your anime masterpiece is complete!">>,
           className |-> "status success",
           imageContainer |-> [kind |-> "image",
                               src |-> <<"data:image/png;base64,", <<IMAGE>>>>,
                               text |-> "Complete"] ]
    ELSE [ textContent |-> <<"Generation failed: ", ErrorMessage(outcome)>>,
           className |-> "status error",
           imageContainer |-> [kind |-> "failed", src |-> <<>>,
                               text |-> "Generation failed"] ]

\* a pending /generate fetch ends and the submit handler runs from its await
\* through try, catch and finally
GenerateFetchSettles ==
    /\ \E f \in generateFetches, outcome \in FetchOutcomes :
         LET after == AfterFetch(outcome)
         IN  /\ generateFetches' = generateFetches \ {f}
             /\ lastSettled' = Some([id |-> f.id, outcome |-> outcome])
             /\ imageWriter' = f.id
             /\ statusText' = after.textContent
             /\ statusClass' = after.className
             /\ imageContainer' = after.imageContainer
    /\ generateBtnDisabled' = FALSE
    /\ UNCHANGED <<requestVars, generatorVars, side, probe, promptValue,
                   healthFetch, submissions>>

HealthOutcomes == {"json", "not_json", "network_error"}

\* the /health fetch of the page ends: the then-callback replaces the
\* initial status text, the catch-callback writes the connection warning
HealthFetchSettles ==
    /\ healthFetch = "pending"
    /\ \E outcome \in HealthOutcomes :
         IF outcome = "json"
         THEN /\ healthFetch' = "resolved"
              /\ statusText' =
                   IF Includes(statusText, "Ready to bring")
                   THEN <<"Connected and ready! Enter your prompt to begin creating.">>
                   ELSE statusText
              /\ UNCHANGED statusClass
         ELSE /\ healthFetch' = "rejected"
              /\ statusText' = <<"Connection issue. Please refresh the page.">>
              /\ statusClass' = "status error"
    /\ UNCHANGED <<requestVars, generatorVars, side, probe, promptValue,
                   generateBtnDisabled, imageContainer, imageWriter,
                   generateFetches, lastSettled, submissions>>

NextPage ==
    \/ LoadPage
    \/ SetPrompt
    \/ Submit
    \/ GenerateFetchSettles
    \/ HealthFetchSettles

SpecPage == Init /\ [][NextPage]_vars

-----------------------------------------------------------------------------
(* Vocabulary of the properties, stated without the operators of the model *)

IsBlank(s) == \A i \in 1..Len(s) : s[i] \in Whitespace

Rejected(s) == IsBlank(s) \/ Len(s) > MAX_PROMPT_LEN

EndsWith(s, suffix) ==
    /\ Len(s) >= Len(suffix)
    /\ SubSeq(s, Len(s) - Len(suffix) + 1, Len(s)) = suffix

\* text occurs in s as a contiguous run of pieces
Contains(s, text) ==
    \E i \in 0..(Len(s) - Len(text)) : SubSeq(s, i + 1, i + Len(text)) = text

\* 0 <= seed <= 2^32 - 1
IsUint32(seed) == seed[1] \in 0..(Limb - 1) /\ seed[2] \in 0..(Limb - 1)

ExpectedSteps(steps) ==
    IF MIN_STEPS <= steps /\ steps <= MAX_STEPS THEN steps ELSE DEFAULT_STEPS

Answered == pc = "done" /\ response # None

Succeeded == Answered /\ response[1].body.success

Failed == Answered /\ ~response[1].body.success

-----------------------------------------------------------------------------
(* C1: a request whose prompt is empty, all whitespace or longer than 1000
   characters never reaches the remote function, the random generator or the
   pipeline, and is answered with success = false. *)
C1_InvalidPromptRejected ==
    (req # None /\ Rejected(req[1].prompt)) =>
        /\ remoteCalls = <<>>
        /\ genSeeds = <<>>
        /\ pipeCalls = <<>>
        /\ pc \in {"endpoint", "done"}
        /\ (pc = "done" => Failed)

C1_Witness ==
    /\ Failed
    /\ Len(req[1].prompt) = MAX_PROMPT_LEN + 1
    /\ ~IsBlank(req[1].prompt)
    /\ remoteCalls = <<>>

(* C2: a prompt that fails validation is answered with HTTP status 400, a
   client error, not with a server error. *)
C2_ValidationFailureIsClientError ==
    (Answered /\ Rejected(req[1].prompt)) =>
        response[1].status = HTTP_BAD_REQUEST

(* C3: the step count used is the submitted one when it lies in 1..8 and the
   default 4 otherwise, for POST /generate (first conjunct) and for
   generate_image called directly (second conjunct); the replacement made in
   the endpoint (what the remote function receives) and the one made again in
   generate_image (what the pipeline receives) give the same count, which is
   also the one reported. *)
C3_StepsUsed ==
    /\ req # None =>
          LET expected == ExpectedSteps(req[1].steps)
          IN  /\ \A i \in DOMAIN remoteCalls : remoteCalls[i].steps = expected
              /\ \A i \in DOMAIN pipeCalls : pipeCalls[i].steps = expected
              /\ (result # None => result[1].steps = expected)
              /\ (Succeeded => response[1].body.steps = expected)
    /\ (req = None /\ remoteCalls # <<>>) =>
          LET expected == ExpectedSteps(remoteCalls[1].steps)
          IN  /\ \A i \in DOMAIN pipeCalls : pipeCalls[i].steps = expected
              /\ (result # None /\ result[1].success =>
                     result[1].steps = expected)

C3_Witness ==
    /\ Succeeded
    /\ req[1].steps < MIN_STEPS
    /\ remoteCalls[1].steps = DEFAULT_STEPS
    /\ pipeCalls[1].steps = DEFAULT_STEPS

(* C4: when generate is called with seed -1, the seed handed to the random
   generator and the seed returned lie in 0 .. 2^32 - 1; no successful result
   and no success response reports seed -1. *)
C4_SentinelSeedResolved ==
    /\ \A i \in DOMAIN remoteCalls :
         remoteCalls[i].seed = DEFAULT_SEED =>
            /\ \A j \in DOMAIN genSeeds : IsUint32(genSeeds[j])
            /\ \A j \in DOMAIN pipeCalls : IsUint32(pipeCalls[j].seed)
            /\ (result # None /\ result[1].success => IsUint32(result[1].seed))
    /\ (result # None /\ result[1].success => result[1].seed # DEFAULT_SEED)
    /\ (Succeeded => response[1].body.seed # DEFAULT_SEED)

C4_Witness ==
    /\ Succeeded
    /\ req[1].seed = DEFAULT_SEED
    /\ genSeeds = <<RAND_HI>>
    /\ response[1].body.seed = RAND_HI

(* C5: for every user prompt the enhanced prompt ends with the style suffix,
   and every prompt passed to the remote inference function ends with it. *)
C5_EnhancedPromptEndsWithSuffix ==
    req # None =>
        /\ EndsWith(EnhancePrompt(req[1].prompt, ANIME_STYLE_SUFFIX),
                    ANIME_STYLE_SUFFIX)
        /\ \A i \in DOMAIN remoteCalls :
             EndsWith(remoteCalls[i].prompt, ANIME_STYLE_SUFFIX)

C5_Witness ==
    /\ pc = "remote"
    /\ Len(remoteCalls) = 1
    /\ Len(req[1].prompt) = MAX_PROMPT_LEN
    /\ Len(remoteCalls[1].prompt) > Len(ANIME_STYLE_SUFFIX)
    /\ Len(remoteCalls[1].prompt) < MAX_PROMPT_LEN + Len(ANIME_STYLE_SUFFIX)
    /\ EndsWith(remoteCalls[1].prompt, ANIME_STYLE_SUFFIX)

(* C6: when the remote inference fails for a validated request, inside
   generate_image or in the remote call itself, the handler answers with
   status 500, success = false and an error holding the exception text, and
   no exception leaves the handler. *)
C6_RemoteFailureAnswered ==
    /\ ~escaped
    /\ (pc = "done" /\ remoteExc # None) =>
          /\ Failed
          /\ response[1].status = HTTP_SERVER_ERROR
          /\ Contains(response[1].body.error, <<remoteExc[1].args[1]>>)
    /\ (pc = "done" /\ remoteExc = None /\ innerExc # None) =>
          /\ Failed
          /\ response[1].status = HTTP_SERVER_ERROR
          /\ Contains(response[1].body.error, <<innerExc[1].args[1]>>)

C6_Witness ==
    /\ Failed
    /\ remoteExc = None
    /\ innerExc # None
    /\ pipeCalls # <<>>
    /\ response[1].status = HTTP_SERVER_ERROR

(* C7: a response is either success = true with image, seed, steps,
   original_prompt and enhanced_prompt, or success = false with error and no
   image; it is a success exactly when the remote function returned
   success = true to the handler. *)
C7_ResponseShapes ==
    /\ (pc = "done" => response # None)
    /\ response # None =>
          LET body == response[1].body
          IN  /\ body.success =>
                   DOMAIN body = {"success", "image", "seed", "steps",
                                  "original_prompt", "enhanced_prompt"}
              /\ ~body.success => DOMAIN body = {"success", "error"}
              /\ body.success <=>
                   (remoteExc = None /\ result # None /\ result[1].success)

C7_Witness ==
    /\ Succeeded
    /\ result[1].success
    /\ "image" \in DOMAIN response[1].body

(* C8: in a success response, seed is the seed handed to the random generator
   for this request and steps is the num_inference_steps handed to the
   pipeline. *)
C8_ReportedSeedAndStepsAreUsed ==
    Succeeded =>
        /\ Len(genSeeds) = 1
        /\ Len(pipeCalls) = 1
        /\ response[1].body.seed = genSeeds[1]
        /\ response[1].body.seed = pipeCalls[1].seed
        /\ response[1].body.steps = pipeCalls[1].steps

C8_Witness ==
    /\ Succeeded
    /\ req[1].seed = DEFAULT_SEED
    /\ req[1].steps > MAX_STEPS
    /\ response[1].body.seed = genSeeds[1]
    /\ response[1].body.seed # req[1].seed
    /\ response[1].body.steps # req[1].steps

(* C9: a request seed other than -1 is the seed handed to the random
   generator; a request that resubmits the seed of a success response with
   the same prompt and steps never has that seed drawn again and invokes the
   pipeline with the prompt, steps and seed of the first invocation. *)
C9_SeedReproducible ==
    /\ (req # None /\ req[1].seed # DEFAULT_SEED) =>
          /\ \A i \in DOMAIN genSeeds : genSeeds[i] = req[1].seed
          /\ \A i \in DOMAIN pipeCalls : pipeCalls[i].seed = req[1].seed
    /\ replay # None =>
          /\ req[1].seed # DEFAULT_SEED
          /\ \A i \in DOMAIN genSeeds : genSeeds[i] = replay[1].seed
          /\ \A i \in DOMAIN pipeCalls : pipeCalls[i] = replay[1]

C9_Witness ==
    /\ Succeeded
    /\ replay # None
    /\ replay[1].seed = SeedPlus(RAND_HI, -1)
    /\ pipeCalls = <<replay[1]>>

(* C10: for one request the remote function is invoked at most once and the
   pipeline at most once; after a failure the request is answered with the
   error and nothing is attempted again. *)
C10_NoRetry ==
    /\ Len(remoteCalls) <= 1
    /\ Len(genSeeds) <= 1
    /\ Len(pipeCalls) <= 1
    /\ (innerExc # None \/ remoteExc # None) =>
          /\ pc \in {"returning", "done"}
          /\ (pc = "done" => Failed)

C10_Witness ==
    /\ Failed
    /\ innerExc # None
    /\ Len(remoteCalls) = 1
    /\ Len(pipeCalls) = 1

(* C11: GET /health answers status "healthy" with the configured model name
   in every state, and the step that answers it changes nothing else: it
   neither loads the model nor touches a request being served. *)
C11_HealthCheckIsPure ==
    [][ (side' # None /\ side'[1].route = "/health" /\ side' # side) =>
           /\ side'[1].status = HTTP_OK
           /\ side'[1].body.status = "healthy"
           /\ side'[1].body.model = "black-forest-labs/FLUX.1-schnell"
           /\ UNCHANGED <<requestVars, generatorVars, probe, pageVars>> ]_vars

C11_Witness ==
    /\ side # None
    /\ side[1].route = "/health"
    /\ side[1].body.status = "healthy"
    /\ Failed
    /\ pipe = NoPipe

(* C12: GET /default-preview always answers with the fixed default prompt;
   the image is the base64 text of the bundled file when it can be read
   (the empty text for a file without bytes), and null when the file is
   missing or unreadable, the request still being answered with status 200. *)
C12_DefaultPreview ==
    (side # None /\ side[1].route = "/default-preview") =>
        /\ side[1].status = HTTP_OK
        /\ side[1].body.prompt = DEFAULT_PROMPT
        /\ IF side[1].file.exists /\ side[1].file.readable
           THEN /\ side[1].body.image # None
                /\ side[1].file.empty => side[1].body.image[1] = <<>>
                /\ ~side[1].file.empty => side[1].body.image[1][1] = "base64"
           ELSE side[1].body.image = None

C12_Witness ==
    /\ side # None
    /\ side[1].route = "/default-preview"
    /\ side[1].file.exists
    /\ ~side[1].file.readable
    /\ side[1].body.image = None
    /\ side[1].status = HTTP_OK

(* C13: the model handle is lazily initialised and single: it is null until
   a generate call loads it, only a generate_image step changes it, it is
   non-null whenever the pipeline has been invoked, and once a load has
   succeeded the handle stays and no later call loads the model again. *)
C13_LazySingleModelHandle ==
    /\ [](/\ loads <= 1
          /\ (loads = 0 <=> pipe = NoPipe)
          /\ (pipeCalls # <<>> => pipe = FluxPipeline))
    /\ [][ /\ (pipe' # pipe \/ loads' # loads) =>
                (pc = "remote" /\ pc' = "returning" /\ genSeeds' # <<>>)
           /\ pipe = FluxPipeline => (pipe' = pipe /\ loads' = loads) ]_vars

C13_Witness ==
    /\ replay # None
    /\ pc = "returning"
    /\ pipeCalls # <<>>
    /\ pipe = FluxPipeline
    /\ loads = 1

(* C14: request independence: when the same prompt, steps and seed are
   posted again after any other requests, the pipeline receives the same
   prompt and steps (and the same seed unless it was -1) and a success
   response carries the same seed (unless -1), steps, original_prompt and
   enhanced_prompt as the first time. *)
C14_RequestIndependence ==
    (probe # None /\ req # None /\ probe[1].req = req[1]) =>
        /\ (pipeCalls # <<>> /\ probe[1].pipeCalls # <<>>) =>
              \A i \in DOMAIN pipeCalls :
                 /\ pipeCalls[i].prompt = probe[1].pipeCalls[1].prompt
                 /\ pipeCalls[i].steps = probe[1].pipeCalls[1].steps
                 /\ req[1].seed # DEFAULT_SEED =>
                       pipeCalls[i].seed = probe[1].pipeCalls[1].seed
        /\ (Succeeded /\ probe[1].success) =>
              /\ response[1].body.steps = probe[1].steps
              /\ response[1].body.original_prompt = probe[1].original_prompt
              /\ response[1].body.enhanced_prompt = probe[1].enhanced_prompt
              /\ req[1].seed # DEFAULT_SEED =>
                    response[1].body.seed = probe[1].seed

C14_Witness ==
    /\ probe # None
    /\ Succeeded
    /\ probe[1].req = req[1]
    /\ probe[1].success
    /\ req[1].seed = RAND_HI
    /\ req[1].steps > MAX_STEPS
    /\ Len(req[1].prompt) > 1
    /\ loads = 1

(* C15: in a success response enhanced_prompt is the whole enhanced prompt
   when that has at most 100 characters, and otherwise its first 100
   characters followed by "..."; it never has more than 103 characters. *)
C15_EnhancedPromptPreview ==
    Succeeded =>
        LET full == remoteCalls[1].prompt
            shown == response[1].body.enhanced_prompt
        IN  /\ Len(shown) <= PREVIEW_LEN + 3
            /\ IF Len(full) <= PREVIEW_LEN
               THEN shown = full
               ELSE /\ Len(shown) = PREVIEW_LEN + 3
                    /\ \A i \in 1..PREVIEW_LEN : shown[i] = full[i]
                    /\ \A i \in (PREVIEW_LEN + 1)..(PREVIEW_LEN + 3) :
                         shown[i] = "."

C15_Witness ==
    /\ Succeeded
    /\ Len(remoteCalls[1].prompt) > PREVIEW_LEN
    /\ Len(response[1].body.enhanced_prompt) = PREVIEW_LEN + 3
    /\ response[1].body.enhanced_prompt[PREVIEW_LEN] = remoteCalls[1].prompt[PREVIEW_LEN]
    /\ response[1].body.enhanced_prompt[PREVIEW_LEN + 1] = "."

(* C16: in a success response original_prompt is the submitted prompt,
   character for character: not stripped, not cut, without the suffix. *)
C16_OriginalPromptUnchanged ==
    Succeeded => response[1].body.original_prompt = req[1].prompt

C16_Witness ==
    /\ Succeeded
    /\ Len(req[1].prompt) >= 3
    /\ req[1].prompt[1] = " "
    /\ req[1].prompt[Len(req[1].prompt)] = " "
    /\ response[1].body.original_prompt = req[1].prompt

(* C17: a prompt that passed the validation of the handler also passes the
   validation inside generate_image once the suffix is appended: no accepted
   request is answered with generate_image's "Invalid prompt provided". *)
C17_AcceptedPromptPassesSecondValidation ==
    req # None =>
        /\ innerExc # None => innerExc[1].args[1] # "Invalid prompt provided"
        /\ Failed =>
              ~Contains(response[1].body.error, <<"Invalid prompt provided">>)

(* C18: the pipeline is only ever invoked with a prompt that validate_prompt
   accepts and a step count in 1..8, through POST /generate and when
   generate_image is called directly with any prompt, seed and steps. *)
C18_PipelineArgumentsValid ==
    \A i \in DOMAIN pipeCalls :
        /\ ~Rejected(pipeCalls[i].prompt)
        /\ pipeCalls[i].steps \in MIN_STEPS..MAX_STEPS

C18_Witness ==
    /\ req = None
    /\ pc = "returning"
    /\ Len(pipeCalls) = 1
    /\ remoteCalls[1].steps > MAX_STEPS
    /\ pipeCalls[1].steps = DEFAULT_STEPS
    /\ Len(pipeCalls[1].prompt) = MAX_PROMPT_LEN

(* C19: validate_prompt is False exactly for a prompt that is empty, all
   whitespace or longer than 1000 characters as submitted (before strip),
   True otherwise: 1000 characters pass, 1001 fail even when the surplus is
   surrounding whitespace.  The handler goes on to the remote call exactly
   for the prompts that pass. *)
C19_ValidatePrompt ==
    /\ req # None =>
          /\ ValidatePrompt(req[1].prompt) <=> ~Rejected(req[1].prompt)
          /\ pc \in {"remote", "returning"} => ~Rejected(req[1].prompt)
          /\ (pc = "done" /\ remoteCalls = <<>>) => Rejected(req[1].prompt)
    /\ \A i \in DOMAIN remoteCalls :
          ValidatePrompt(remoteCalls[i].prompt)
             <=> ~Rejected(remoteCalls[i].prompt)

C19_Witness ==
    /\ Failed
    /\ remoteCalls = <<>>
    /\ Len(req[1].prompt) = MAX_PROMPT_LEN + 1
    /\ req[1].prompt[1] \in Whitespace
    /\ req[1].prompt[2] \notin Whitespace
    /\ req[1].prompt[MAX_PROMPT_LEN + 1] \notin Whitespace

(* C20: generate_image never raises: an exception inside it gives a returned
   dict with success = false and the exception text, whose seed is the seed
   the caller passed (-1 stays -1, also when a random seed had already been
   drawn). *)
C20_GenerateImageNeverRaises ==
    /\ pc = "returning" => result # None
    /\ innerExc # None =>
          /\ result # None
          /\ ~result[1].success
          /\ result[1].error = <<innerExc[1].args[1]>>
          /\ result[1].seed = remoteCalls[1].seed
    /\ (result # None /\ ~result[1].success) => innerExc # None

C20_Witness ==
    /\ pc = "returning"
    /\ innerExc # None
    /\ remoteCalls[1].seed = DEFAULT_SEED
    /\ genSeeds = <<RAND_HI>>
    /\ pipeCalls # <<>>
    /\ ~result[1].success
    /\ result[1].seed = DEFAULT_SEED

(* C21: for every user prompt p, enhance_prompt(p) is p without its leading
   and trailing whitespace, followed immediately by the style suffix: its
   length is len(strip(p)) + len(suffix), the characters between the first
   and the last non-whitespace character of p are kept as they are (inner
   whitespace included), and the handler passes on exactly this text. *)
C21_EnhancePromptIsStripPlusSuffix ==
    req # None =>
        LET p == req[1].prompt
            e == EnhancePrompt(p, ANIME_STYLE_SUFFIX)
            n == Len(e) - Len(ANIME_STYLE_SUFFIX)
        IN  /\ n >= 0
            /\ SubSeq(e, n + 1, Len(e)) = ANIME_STYLE_SUFFIX
            /\ n > 0 => (e[1] \notin Whitespace /\ e[n] \notin Whitespace)
            /\ \E lead \in 0..(Len(p) - n) :
                 /\ \A i \in 1..lead : p[i] \in Whitespace
                 /\ \A i \in (lead + n + 1)..Len(p) : p[i] \in Whitespace
                 /\ SubSeq(e, 1, n) = SubSeq(p, lead + 1, lead + n)
            /\ frame # None => frame[1].enhanced_prompt = e

C21_Witness ==
    /\ pc = "remote"
    /\ req # None
    /\ req[1].prompt = <<" ", "a", " ", "b", " ">>
    /\ Len(remoteCalls[1].prompt) = 3 + Len(ANIME_STYLE_SUFFIX)
    /\ SubSeq(remoteCalls[1].prompt, 1, 4) = <<"a", " ", "b", ANIME_STYLE_SUFFIX[1]>>

(* C22: when loading the model raises during a generate call, the handle
   stays null, neither the random generator nor the pipeline is used, and the
   call is reported as a failure (success = false) carrying the load error;
   every later generate call that finds the handle null calls from_pretrained
   again, and the pipeline only ever runs on a handle whose load completed. *)
C22_LoadFailureLeavesNoHandle ==
    /\ [] ( /\ pipe = NoPipe <=> loads = 0
            /\ pipeCalls # <<>> => (pipe = FluxPipeline /\ loads = 1)
            /\ (innerExc # None /\ innerExc[1].args[1] = "model load failed") =>
                  /\ pipe = NoPipe
                  /\ genSeeds = <<>>
                  /\ pipeCalls = <<>>
                  /\ result # None
                  /\ ~result[1].success
                  /\ result[1].error = <<"model load failed">>
                  /\ Answered => Failed )
    /\ [][ ( /\ pc = "remote"
             /\ pc' = "returning"
             /\ pipe = NoPipe
             /\ ~Rejected(remoteCalls[1].prompt) ) =>
              /\ loadCalls' = loadCalls + 1
              /\ \/ pipe' = FluxPipeline /\ loads' = loads + 1
                 \/ /\ pipe' = NoPipe
                    /\ innerExc' # None
                    /\ innerExc'[1].args[1] = "model load failed" ]_vars

C22_Witness ==
    /\ Succeeded
    /\ loadCalls = 2
    /\ loads = 1
    /\ pipe = FluxPipeline
    /\ Len(pipeCalls) = 1

(* C27: a POST /generate without the steps field uses 4 steps, and one
   without the seed field is handled as seed -1: a random seed in
   0..2^32 - 1 is drawn and reported.  A request that leaves the optional
   fields out gets what the request with steps = 4 and seed = -1 gets: the
   pipeline receives the same prompt and steps and a success response
   carries the same steps, original_prompt and enhanced_prompt (the seeds
   are random in both). *)
C27_MissingFieldsAreDefaults ==
    /\ (form # None /\ form[1].steps = None) =>
          /\ req[1].steps = 4
          /\ \A i \in DOMAIN pipeCalls : pipeCalls[i].steps = 4
          /\ Succeeded => response[1].body.steps = 4
    /\ (form # None /\ form[1].seed = None) =>
          /\ req[1].seed = IntToSeed(-1)
          /\ \A i \in DOMAIN genSeeds : IsUint32(genSeeds[i])
          /\ Succeeded => response[1].body.seed = genSeeds[1]
    /\ ( /\ probe # None
         /\ form # None
         /\ probe[1].form.prompt = form[1].prompt
         /\ probe[1].form.steps \in {None, Some(4)}
         /\ form[1].steps \in {None, Some(4)}
         /\ probe[1].form.seed \in {None, Some(IntToSeed(-1))}
         /\ form[1].seed \in {None, Some(IntToSeed(-1))} ) =>
          /\ probe[1].req = req[1]
          /\ (pipeCalls # <<>> /\ probe[1].pipeCalls # <<>>) =>
                /\ pipeCalls[1].prompt = probe[1].pipeCalls[1].prompt
                /\ pipeCalls[1].steps = probe[1].pipeCalls[1].steps
                /\ IsUint32(pipeCalls[1].seed)
          /\ (Succeeded /\ probe[1].success) =>
                /\ response[1].body.steps = probe[1].steps
                /\ response[1].body.original_prompt = probe[1].original_prompt
                /\ response[1].body.enhanced_prompt = probe[1].enhanced_prompt

C27_Witness ==
    /\ probe # None
    /\ probe[1].form.steps = None
    /\ probe[1].form.seed = None
    /\ probe[1].success
    /\ Succeeded
    /\ form[1].prompt = probe[1].form.prompt
    /\ form[1].steps = Some(DEFAULT_STEPS)
    /\ form[1].seed = Some(DEFAULT_SEED)
    /\ pipeCalls[1].steps = DEFAULT_STEPS

(* C26: GET / always answers with the page, and the step that answers it
   neither loads the model nor touches a request or the pipeline.  When the
   bundled default image can be read (the file is there, open and read
   succeed, and it holds bytes) the image container is the preview with the
   image as a base64 data URI; when the file is missing or unreadable the
   container is the text placeholder, with no image in it. *)
C26_IndexAlwaysReturnsPage ==
    /\ [] ( (side # None /\ side[1].route = "/") =>
              /\ side[1].status = HTTP_OK
              /\ side[1].body.status.textContent[1] = "Ready to bring"
              /\ IF side[1].file.exists /\ side[1].file.readable
                 THEN ~side[1].file.empty =>
                        /\ side[1].body.imageContainer.kind = "preview"
                        /\ side[1].body.imageContainer.src[1]
                             = "data:image/png;base64,"
                        /\ side[1].body.imageContainer.src[2][1] = "base64"
                 ELSE /\ side[1].body.imageContainer.kind = "placeholder"
                      /\ side[1].body.imageContainer.src = <<>>
                      /\ side[1].body.imageContainer.text
                           = "Your anime masterpiece will appear here" )
    /\ [][ (side' # None /\ side'[1].route = "/" /\ side' # side) =>
              UNCHANGED <<requestVars, generatorVars>> ]_vars

C26_Witness ==
    /\ side # None
    /\ side[1].route = "/"
    /\ side[1].status = HTTP_OK
    /\ side[1].file.exists
    /\ ~side[1].file.readable
    /\ side[1].body.imageContainer.kind = "placeholder"
    /\ pc = "returning"
    /\ pipe = FluxPipeline

(* C23: whatever the /generate fetch of a submission ends with (a body with
   success true, a body with success false, a body that is not JSON, a
   network error), the submit handler ends with the generate button enabled
   and the status class 'status success', exactly when the body had success
   true, or 'status error'; while no submission is pending the status class
   is never 'status generating'. *)
C23_SubmitHandlerAlwaysFinishes ==
    /\ [] ( (PageLoaded /\ generateFetches = {}) =>
              /\ ~generateBtnDisabled
              /\ statusClass # "status generating" )
    /\ [][ (lastSettled' # None /\ lastSettled' # lastSettled) =>
              /\ generateBtnDisabled' = FALSE
              /\ statusClass' \in {"status success", "status error"}
              /\ statusClass' = "status success"
                    <=> lastSettled'[1].outcome = "success" ]_vars

C23_Witness ==
    /\ lastSettled # None
    /\ lastSettled[1].outcome = "not_json"
    /\ lastSettled[1].id = 2
    /\ ~generateBtnDisabled
    /\ statusClass = "status error"
    /\ imageContainer.kind = "failed"

(* C24: on one page the generate button is disabled exactly while the fetch
   of a submission is pending, so at most one /generate fetch issued by the
   form is pending at any time, it belongs to the most recent submission,
   and the image container was last written by the most recent submission. *)
C24_OneSubmissionInFlight ==
    /\ Cardinality(generateFetches) <= 1
    /\ generateBtnDisabled <=> generateFetches # {}
    /\ \A f \in generateFetches : f.id = submissions
    /\ imageWriter = submissions
    /\ (PageLoaded /\ submissions = 0) => imageContainer.kind \in {"preview", "placeholder"}
    /\ submissions > 0 =>
          imageContainer.kind = IF generateFetches # {} THEN "loading"
                                ELSE IF lastSettled[1].outcome = "success"
                                     THEN "image" ELSE "failed"

C24_Witness ==
    /\ submissions = 2
    /\ generateBtnDisabled
    /\ Cardinality(generateFetches) = 1
    /\ imageWriter = 2
    /\ imageContainer.kind = "loading"
    /\ healthFetch = "pending"

(* C25: when the page's health check ends, with a result or with a failure,
   at whatever moment, it leaves alone a status line that a prompt selection
   or a generation has already changed from its initial 'Ready to bring'
   text. *)
C25_HealthResultKeepsChangedStatus ==
    [][ ( /\ healthFetch = "pending"
          /\ healthFetch' \in {"resolved", "rejected"}
          /\ statusText[1] # "Ready to bring" ) =>
            UNCHANGED <<statusText, statusClass>> ]_vars

====
